---- MODULE Spec2Model ----
(***************************************************************************)
(* Model of the authoritative server-side Player entity                    *)
(* (backend/src/entities/Player.ts): the latest-input buffer with its      *)
(* attack latch (setInput / isAttacking), the per-tick input processing    *)
(* (processInput) and the experience / level computation (gainExp); and of *)
(* the client (frontend/src/scenes/MainScene.ts, entities/Player.ts): the  *)
(* reconciliation of snapshots, the membership deltas, the per-frame input *)
(* emission and enemy interpolation, and the attack animation lock.        *)
(*                                                                         *)
(* JavaScript objects are modelled as follows.                             *)
(*  - A Partial<{left,right,up,down,direction,action}> input record is a   *)
(*    TLA+ function whose DOMAIN is the set of keys that are present; the  *)
(*    empty object {} is the function with the empty domain.               *)
(*  - Player.position is a reference to a {x, y} object: the constructor   *)
(*    stores the reference it is given, so positions live in `heap` and a  *)
(*    Player holds a key of it.                                            *)
(*  - Coordinates are integers: speed / TICK_RATE = 100 / 20 = 5 is exact  *)
(*    in IEEE doubles, as are all sums of it with integer spawn points.    *)
(***************************************************************************)
EXTENDS Integers, FiniteSets, Sequences, TLC

VARIABLES
    players,    \* playerId -> Player object (fields of class Player)
    heap,       \* reference -> {x, y} position object
    received,   \* playerId -> what arrived since that player's last processInput
    lastCall,   \* the most recent method call: its arguments, pre-state and result
    scene,      \* the client's MainScene: playerId, player, players, enemies, currentInputs
    entities,   \* client heap: reference -> frontend Player object
    steps       \* client events handled so far (network events and render frames)

vars == <<players, heap, received, lastCall, scene, entities, steps>>
server == <<players, heap, received>>
client == <<scene, entities, steps>>

----------------------------------------------------------------------------
(* Program constants *)

speed == 100
TICK_RATE == 20
WorldWidth == 800
WorldHeight == 600
LevelExp == 100

(* Bounds of the model *)

MaxTicks == 2       \* processInput calls per player
MaxInputs == 2      \* setInput calls per player between two processInput calls
MaxLevel == 3       \* gainExp is called while level <= MaxLevel
AmountStep == 10    \* experience amounts are multiples of AmountStep ...
MaxGain == 25       \* ... up to MaxGain * AmountStep
IsoMaxTicks == 1    \* two-player runs: processInput calls per player
IsoMaxInputs == 1   \* two-player runs: setInput calls per player and tick
IsoMaxLevel == 2    \* two-player runs: gainExp is called while level <= IsoMaxLevel
MaxSteps == 4       \* client events (network events, render frames) of a scene run
MaxLerpFrames == 68  \* render frames of an interpolation run
ConvergeFrames == 64 \* frames after which a sprite is within Epsilon of its target

----------------------------------------------------------------------------
(* Values *)

Max(a, b) == IF a >= b THEN a ELSE b
Min(a, b) == IF a <= b THEN a ELSE b

EmptyInput == [k \in {} |-> TRUE]

Has(input, k) == k \in DOMAIN input

\* JavaScript truthiness of input[k] for a boolean-valued key
Flag(input, k) == Has(input, k) /\ input[k] = TRUE

\* JavaScript truthiness of input[k] for a string-valued key
Truthy(input, k) == Has(input, k) /\ input[k] # ""

\* obj.k = v on an input record
SetKey(input, k, v) ==
    [j \in DOMAIN input \cup {k} |-> IF j = k THEN v ELSE input[j]]

----------------------------------------------------------------------------
(* class Player *)

\* mutant: every player is given one shared default position object
PlayerSharedPosition(data) ==
    [ playerId     |-> data.playerId,
      position     |-> 1,
      level        |-> data.level,
      exp          |-> data.exp,
      health       |-> data.health,
      socketId     |-> data.socketId,
      direction    |-> data.direction,
      action       |-> data.action,
      isAlive      |-> TRUE,
      speed        |-> speed,
      currentInput |-> EmptyInput ]

\* constructor(data: PlayerData): field initialisers, then the assignments
Player(data) ==
    [ playerId     |-> data.playerId,
      position     |-> data.position,
      level        |-> data.level,
      exp          |-> data.exp,
      health       |-> data.health,
      socketId     |-> data.socketId,
      direction    |-> data.direction,
      action       |-> data.action,
      isAlive      |-> TRUE,
      speed        |-> speed,
      currentInput |-> EmptyInput ]

\* mutant: the new record replaces the pending one, attack or not
setInputNoLatch(pl, input) ==
    [pl EXCEPT !.currentInput = input]

\* mutant: the new record is merged into the pending one, key by key
setInputMerge(pl, input) ==
    LET prev == pl.currentInput
        merged == [k \in DOMAIN prev \cup DOMAIN input |->
                      IF k \in DOMAIN input THEN input[k] ELSE prev[k]]
    IN  [pl EXCEPT !.currentInput =
            IF Has(prev, "action") /\ prev["action"] = "attack"
            THEN SetKey(merged, "action", "attack")
            ELSE merged]

\* setInput(input): the player after the call
setInput(pl, input) ==
    LET prev == pl.currentInput
    IN  [pl EXCEPT !.currentInput =
            IF Has(prev, "action") /\ prev["action"] = "attack"
            THEN SetKey(input, "action", "attack")
            ELSE input]

isAttacking(pl) ==
    Has(pl.currentInput, "action") /\ pl.currentInput["action"] = "attack"

\* mutant: the position is clamped after each displacement
integrateClampEach(pos, input, d) ==
    LET x1 == IF Flag(input, "left")  THEN Max(0, pos.x - d) ELSE pos.x
        x2 == IF Flag(input, "right") THEN Min(WorldWidth, x1 + d) ELSE x1
        y1 == IF Flag(input, "up")    THEN Max(0, pos.y - d) ELSE pos.y
        y2 == IF Flag(input, "down")  THEN Min(WorldHeight, y1 + d) ELSE y1
    IN  [x |-> x2, y |-> y2]

\* lines 80-83: the four conditional displacements, in program order
integrate(pos, input, d) ==
    LET x1 == IF Flag(input, "left")  THEN pos.x - d ELSE pos.x
        x2 == IF Flag(input, "right") THEN x1 + d    ELSE x1
        y1 == IF Flag(input, "up")    THEN pos.y - d ELSE pos.y
        y2 == IF Flag(input, "down")  THEN y1 + d    ELSE y1
    IN  [x |-> x2, y |-> y2]

\* mutant: only the upper bounds are enforced
clampPositionUpperOnly(pos) ==
    [x |-> Min(WorldWidth, pos.x), y |-> Min(WorldHeight, pos.y)]

\* lines 94-95: Math.max(0, Math.min(bound, v)) per axis
clampPosition(pos) ==
    [x |-> Max(0, Min(WorldWidth, pos.x)),
     y |-> Max(0, Min(WorldHeight, pos.y))]

\* processInput(): the position object after the call
processInputPosition(pl, pos) ==
    clampPosition(integrate(pos, pl.currentInput, pl.speed \div TICK_RATE))

\* mutant: the pending record is kept after processing
processInputFieldsNoReset(pl) ==
    LET input == pl.currentInput
    IN  [pl EXCEPT
            !.direction = IF Truthy(input, "direction")
                          THEN input["direction"] ELSE @,
            !.action = IF Truthy(input, "action") THEN input["action"] ELSE @]

\* mutant: direction and action are assigned without the presence tests
processInputFieldsAlwaysAssign(pl) ==
    LET input == pl.currentInput
    IN  [pl EXCEPT
            !.direction = IF Has(input, "direction")
                          THEN input["direction"] ELSE "undefined",
            !.action = IF Has(input, "action") THEN input["action"] ELSE "undefined",
            !.currentInput = EmptyInput]

\* mutant: the reset clears the flags and the direction but keeps the action
processInputFieldsKeepAction(pl) ==
    LET input == pl.currentInput
    IN  [pl EXCEPT
            !.direction = IF Truthy(input, "direction")
                          THEN input["direction"] ELSE @,
            !.action = IF Truthy(input, "action") THEN input["action"] ELSE @,
            !.currentInput = IF Has(input, "action")
                             THEN [action |-> input["action"]] ELSE EmptyInput]

\* processInput(): the player's own fields after the call
processInputFields(pl) ==
    LET input == pl.currentInput
    IN  [pl EXCEPT
            !.direction = IF Truthy(input, "direction")
                          THEN input["direction"] ELSE @,
            !.action = IF Truthy(input, "action") THEN input["action"] ELSE @,
            !.currentInput = EmptyInput]

\* mutant: the threshold test is strict
gainExpStrict(pl, amount) ==
    LET e == pl.exp + amount
    IN  IF e > pl.level * LevelExp
        THEN [player |-> [pl EXCEPT !.exp = e - pl.level * LevelExp,
                                    !.level = pl.level + 1],
              ret |-> TRUE]
        ELSE [player |-> [pl EXCEPT !.exp = e], ret |-> FALSE]

\* gainExp(amount): the player after the call and the value returned
gainExp(pl, amount) ==
    LET e == pl.exp + amount
    IN  IF e >= pl.level * LevelExp
        THEN [player |-> [pl EXCEPT !.exp = e - pl.level * LevelExp,
                                    !.level = pl.level + 1],
              ret |-> TRUE]
        ELSE [player |-> [pl EXCEPT !.exp = e], ret |-> FALSE]

----------------------------------------------------------------------------
(* The observable state of one player: its fields with the position object
   read through the reference. *)

Pos(p) == heap[players[p].position]

Snapshot(p) ==
    [ position  |-> Pos(p),
      direction |-> players[p].direction,
      action    |-> players[p].action,
      level     |-> players[p].level,
      exp       |-> players[p].exp,
      health    |-> players[p].health,
      isAlive   |-> players[p].isAlive,
      pending   |-> players[p].currentInput ]

NothingReceived == [count |-> 0, sawAttack |-> FALSE, last |-> EmptyInput, ticks |-> 0]

----------------------------------------------------------------------------
(* Inputs.  A client builds its playerInput record in MainScene.update from
   the four cursor flags, the attack key and the direction it currently
   shows; the Partial<> type of setInput also admits sparse records. *)

\* mutant: the walk direction is chosen left > right > up > down
ClientInputLeftFirst(l, r, u, d, attackKey, curDir) ==
    LET isWalking == l \/ r \/ u \/ d
        walkDir == IF l THEN "left" ELSE IF r THEN "right"
                   ELSE IF u THEN "up" ELSE IF d THEN "down" ELSE curDir
    IN  [ left |-> l, right |-> r, up |-> u, down |-> d,
          direction |-> IF ~attackKey /\ isWalking THEN walkDir ELSE curDir,
          action |-> IF attackKey THEN "attack"
                     ELSE IF isWalking THEN "walk" ELSE "idle" ]

\* MainScene.update: the record emitted for the given keys
ClientInput(l, r, u, d, attackKey, curDir) ==
    LET isWalking == l \/ r \/ u \/ d
        walkDir == IF u THEN "up" ELSE IF d THEN "down"
                   ELSE IF l THEN "left" ELSE IF r THEN "right" ELSE curDir
    IN  [ left |-> l, right |-> r, up |-> u, down |-> d,
          direction |-> IF ~attackKey /\ isWalking THEN walkDir ELSE curDir,
          action |-> IF attackKey THEN "attack"
                     ELSE IF isWalking THEN "walk" ELSE "idle" ]

ClientInputs ==
    { ClientInput(l, r, u, d, k, "down") :
        l \in BOOLEAN, r \in BOOLEAN, u \in BOOLEAN, d \in BOOLEAN, k \in BOOLEAN }

SparseInputs ==
    { EmptyInput,
      [left |-> TRUE],
      [action |-> "attack"],
      [action |-> "idle"],
      [direction |-> "right"],
      [up |-> TRUE, left |-> TRUE],
      [down |-> TRUE, right |-> TRUE, direction |-> "", action |-> ""] }

Inputs == ClientInputs \cup SparseInputs

SpawnPositions == { [x |-> 3, y |-> 2], [x |-> 797, y |-> 598] }

\* the record a join builds for a new player; each player gets its own
\* position object, stored in the heap under the reference `ref`
PlayerData(id, ref) ==
    [ playerId  |-> id,
      position  |-> ref,
      level     |-> 1,
      exp       |-> 0,
      health    |-> 100,
      socketId  |-> id,
      direction |-> "down",
      action    |-> "idle" ]

----------------------------------------------------------------------------
(* Client: class Player (frontend/src/entities/Player.ts).  The sprite is
   its position, flip, current animation key, whether that animation is
   still playing, and the number of once("animationcomplete") listeners. *)

NoRef == 0

\* Client coordinates are exact decimal fractions of a pixel: the integer v
\* stands for v / Scale pixels, and Scale = 10^MaxSteps keeps MaxSteps
\* successive interpolation steps of factor 1/10 exact.
RECURSIVE Pow10(_)
Pow10(n) == IF n = 0 THEN 1 ELSE 10 * Pow10(n - 1)

Scale == Pow10(MaxSteps)

Px(n) == n * Scale

Directions == {"up", "down", "left", "right"}

\* Player.createAnimations: the keys registered, and those with repeat: 0
AnimKeys ==
    {"idle", "die"} \cup { "idle_" \o d : d \in Directions }
        \cup { "walk_" \o d : d \in Directions }
        \cup { "attack_" \o d : d \in Directions }

OneShotKeys == {"die"} \cup { "attack_" \o d : d \in Directions }

\* sprite.play(key, true): ignored while that key is playing; an unknown key
\* is not played
spritePlay(sprite, key) ==
    IF key \notin AnimKeys \/ (sprite.anim = key /\ sprite.playing)
    THEN sprite
    ELSE [sprite EXCEPT !.anim = key, !.playing = TRUE]

\* updateExpBar(exp, level)
updateExpBar(e, exp, level) ==
    [e EXCEPT !.exp = exp, !.level = level, !.levelText = level]

\* constructor(scene, socket, playerData)
newPlayer(data) ==
    updateExpBar(
        [ playerId         |-> data.playerId,
          exp              |-> data.exp,
          level            |-> data.level,
          levelText        |-> data.level,
          isMoving         |-> FALSE,
          isAttacking      |-> FALSE,
          currentDirection |-> "right",
          currentAction    |-> "idle",
          sprite           |-> [ x |-> data.position.x, y |-> data.position.y,
                                 flipX |-> FALSE, anim |-> "idle_right",
                                 playing |-> TRUE, listeners |-> 0 ],
          label            |-> [ x |-> data.position.x, y |-> data.position.y - Px(50) ],
          destroyed        |-> FALSE ],
        data.exp, data.level)

\* updatePosition(position)
updatePosition(e, position) ==
    [e EXCEPT !.sprite.x = position.x, !.sprite.y = position.y,
              !.label = [x |-> position.x, y |-> position.y - Px(50)]]

\* updateDirection(direction)
updateDirection(e, direction) ==
    IF direction = "" THEN e
    ELSE [e EXCEPT !.sprite.flipX = IF direction # e.currentDirection
                                    THEN direction = "left" ELSE @,
                   !.currentDirection = direction]

\* updateAction(action)
updateAction(e, action) == [e EXCEPT !.currentAction = action]

\* mutant: playAnimation without the isAttacking test at its top
playAnimationNoLock(e, action, direction) ==
    LET key == IF action = "idle" THEN "idle_" \o direction
               ELSE IF action = "walk" THEN "walk_" \o direction
               ELSE IF action = "attack" THEN "attack_" \o direction
               ELSE IF action = "die" THEN "die" ELSE ""
        e1 == [e EXCEPT !.isMoving = IF action = "idle" THEN FALSE
                                     ELSE IF action = "walk" THEN TRUE ELSE @,
                        !.isAttacking = IF action = "attack" THEN TRUE ELSE @]
        e2 == IF key # "" THEN [e1 EXCEPT !.sprite = spritePlay(@, key)] ELSE e1
    IN  IF action = "attack"
        THEN [e2 EXCEPT !.sprite.listeners = @ + 1]
        ELSE e2

\* playAnimation(action, direction) up to the registration of the listener
playAnimation(e, action, direction) ==
    IF e.isAttacking THEN e
    ELSE
    LET key == IF action = "idle" THEN "idle_" \o direction
               ELSE IF action = "walk" THEN "walk_" \o direction
               ELSE IF action = "attack" THEN "attack_" \o direction
               ELSE IF action = "die" THEN "die" ELSE ""
        e1 == [e EXCEPT !.isMoving = IF action = "idle" THEN FALSE
                                     ELSE IF action = "walk" THEN TRUE ELSE @,
                        !.isAttacking = IF action = "attack" THEN TRUE ELSE @]
        e2 == IF key # "" THEN [e1 EXCEPT !.sprite = spritePlay(@, key)] ELSE e1
    IN  IF action = "attack"
        THEN [e2 EXCEPT !.sprite.listeners = @ + 1]
        ELSE e2

\* mutant: the listener resumes "idle" whatever isMoving says
onAnimationCompleteIdle(e) ==
    playAnimation([e EXCEPT !.isAttacking = FALSE], "idle", e.currentDirection)

\* the listener registered by playAnimation("attack")
onAnimationComplete(e) ==
    playAnimation([e EXCEPT !.isAttacking = FALSE],
                  IF e.isMoving THEN "walk" ELSE "idle", e.currentDirection)

\* the sprite's animation completes: the once-listeners are removed and run
animationComplete(e) ==
    LET done == [e EXCEPT !.sprite.playing = FALSE, !.sprite.listeners = 0]
    IN  IF e.sprite.listeners > 0 THEN onAnimationComplete(done) ELSE done

\* destroy()
destroyPlayer(e) == [e EXCEPT !.destroyed = TRUE, !.sprite.playing = FALSE]

\* the MainScene after its constructor: no entity yet
NewScene ==
    [ playerId      |-> "me",
      player        |-> NoRef,
      players       |-> [k \in {} |-> NoRef],
      enemies       |-> [k \in {} |-> NoRef],
      currentInputs |-> [k \in {} |-> FALSE] ]

NoClient ==
    /\ scene = NewScene
    /\ entities = [u \in {} |-> NoRef]
    /\ steps = 0

----------------------------------------------------------------------------
(* Client: class MainScene.  Its methods are functions of the client state
   cs = [scene, entities].  An object map { [key]: value } is a function
   whose DOMAIN is the set of keys present. *)

MapDel(map, k) == [j \in DOMAIN map \ {k} |-> map[j]]

\* a reference no object of the heap has
FreshRef(ents) == CHOOSE u \in 1..(Cardinality(DOMAIN ents) + 1) : u \notin DOMAIN ents

\* objects no longer referenced by the scene are garbage
Collect(cs) ==
    LET live == ({cs.scene.player} \cup { cs.scene.players[k] : k \in DOMAIN cs.scene.players })
                    \ {NoRef}
    IN  [cs EXCEPT !.entities = [u \in DOMAIN cs.entities \cap live |-> cs.entities[u]]]

\* the order in which for..in visits the keys of a snapshot
PlayerOrder == <<"me", "p2">>
EnemyOrder == <<"e1", "e2">>

\* createPlayer(playerData)
createPlayer(cs, data) ==
    LET u == FreshRef(cs.entities)
    IN  [ scene    |-> [cs.scene EXCEPT !.player = u,
                                        !.players = SetKey(@, cs.scene.playerId, u)],
          entities |-> SetKey(cs.entities, u, newPlayer(data)) ]

\* mutant: createOtherPlayer without its early return
createOtherPlayerAgain(cs, data) ==
    LET u == FreshRef(cs.entities)
    IN  [ scene    |-> [cs.scene EXCEPT !.players = SetKey(@, data.playerId, u)],
          entities |-> SetKey(cs.entities, u, newPlayer(data)) ]

\* createOtherPlayer(playerData)
createOtherPlayer(cs, data) ==
    IF data.playerId \in DOMAIN cs.scene.players THEN cs
    ELSE
    LET u == FreshRef(cs.entities)
    IN  [ scene    |-> [cs.scene EXCEPT !.players = SetKey(@, data.playerId, u)],
          entities |-> SetKey(cs.entities, u, newPlayer(data)) ]

\* healthBar.fillColor for a health / maxHealth ratio: > 0.5, > 0.2, else
barColor(health, maxHealth) ==
    IF 2 * health > maxHealth THEN "green"
    ELSE IF 5 * health > maxHealth THEN "yellow" ELSE "red"

\* createEnemy(id, enemyData)
createEnemy(cs, id, data) ==
    [cs EXCEPT !.scene.enemies = SetKey(@, id,
        [ sprite         |-> [x |-> data.position.x, y |-> data.position.y],
          healthBar      |-> [x |-> data.position.x, y |-> data.position.y - Px(30),
                              width |-> 40, maxWidth |-> 40, fillColor |-> "green"],
          maxHealth      |-> data.health,
          prevPosition   |-> [x |-> data.position.x, y |-> data.position.y],
          targetPosition |-> [x |-> data.position.x, y |-> data.position.y] ])]

\* mutant: a known player is moved a tenth of the way to the snapshot position
updateKnownPlayerSmoothed(cs, id, sp) ==
    LET u == cs.scene.players[id]
        e == cs.entities[u]
        to == [x |-> e.sprite.x + (sp.position.x - e.sprite.x) \div 10,
               y |-> e.sprite.y + (sp.position.y - e.sprite.y) \div 10]
        e1 == updatePosition(e, to)
        e2 == updateDirection(e1, sp.direction)
        e3 == updateAction(e2, sp.action)
        e4 == playAnimation(e3, sp.action, e3.currentDirection)
        e5 == IF id = cs.scene.playerId THEN updateExpBar(e4, sp.exp, sp.level) ELSE e4
    IN  [cs EXCEPT !.entities[u] = e5]

\* updateGameState, lines 247-253: a player the client already has
updateKnownPlayer(cs, id, sp) ==
    LET u == cs.scene.players[id]
        e1 == updatePosition(cs.entities[u], sp.position)
        e2 == updateDirection(e1, sp.direction)
        e3 == updateAction(e2, sp.action)
        e4 == playAnimation(e3, sp.action, e3.currentDirection)
        e5 == IF id = cs.scene.playerId THEN updateExpBar(e4, sp.exp, sp.level) ELSE e4
    IN  [cs EXCEPT !.entities[u] = e5]

\* updateGameState, lines 244-261: for (const id in state.players)
RECURSIVE mergePlayers(_, _, _)
mergePlayers(cs, sps, ids) ==
    IF ids = << >> THEN cs
    ELSE
    LET id == Head(ids)
        next == IF id \notin DOMAIN sps THEN cs
                ELSE IF id \in DOMAIN cs.scene.players
                     THEN updateKnownPlayer(cs, id, sps[id])
                ELSE IF id = cs.scene.playerId THEN createPlayer(cs, sps[id])
                ELSE createOtherPlayer(cs, sps[id])
    IN  mergePlayers(next, sps, Tail(ids))

\* mutant: players missing from the snapshot are kept
dropPlayersNever(cs, sps) == cs

\* updateGameState, lines 263-268: for (const id in this.players)
dropPlayers(cs, sps) ==
    LET gone == DOMAIN cs.scene.players \ DOMAIN sps
    IN  [ scene    |-> [cs.scene EXCEPT !.players = [k \in DOMAIN @ \ gone |-> @[k]]],
          entities |-> [u \in DOMAIN cs.entities |->
                            IF \E k \in gone : cs.scene.players[k] = u
                            THEN destroyPlayer(cs.entities[u]) ELSE cs.entities[u]] ]

\* mutant: a known enemy's sprite is moved to the snapshot position
updateKnownEnemySnap(en, data) ==
    [en EXCEPT !.targetPosition.x = data.position.x,
               !.targetPosition.y = data.position.y,
               !.sprite = [x |-> data.position.x, y |-> data.position.y],
               !.healthBar.width = (data.health * en.healthBar.maxWidth) \div en.maxHealth,
               !.healthBar.fillColor = barColor(data.health, en.maxHealth)]

\* updateGameState, lines 273-287: an enemy the client already has
updateKnownEnemy(en, data) ==
    [en EXCEPT !.targetPosition.x = data.position.x,
               !.targetPosition.y = data.position.y,
               !.healthBar.width = (data.health * en.healthBar.maxWidth) \div en.maxHealth,
               !.healthBar.fillColor = barColor(data.health, en.maxHealth)]

\* updateGameState, lines 270-291: for (const id in state.enemies)
RECURSIVE mergeEnemies(_, _, _)
mergeEnemies(cs, ses, ids) ==
    IF ids = << >> THEN cs
    ELSE
    LET id == Head(ids)
        next == IF id \notin DOMAIN ses THEN cs
                ELSE IF id \in DOMAIN cs.scene.enemies
                     THEN [cs EXCEPT !.scene.enemies[id] = updateKnownEnemy(@, ses[id])]
                ELSE createEnemy(cs, id, ses[id])
    IN  mergeEnemies(next, ses, Tail(ids))

\* updateGameState, lines 293-299: for (const id in this.enemies)
dropEnemies(cs, ses) ==
    [cs EXCEPT !.scene.enemies = [k \in DOMAIN @ \cap DOMAIN ses |-> @[k]]]

\* updateGameState(state)
updateGameState(cs, state) ==
    Collect(dropEnemies(
                mergeEnemies(
                    dropPlayers(mergePlayers(cs, state.players, PlayerOrder), state.players),
                    state.enemies, EnemyOrder),
                state.enemies))

\* mutant: playerJoined constructs an entity whether or not the id is known
onPlayerJoinedAlways(cs, data) == Collect(createOtherPlayerAgain(cs, data))

\* socket.on("playerJoined")
onPlayerJoined(cs, data) ==
    IF data.playerId \notin DOMAIN cs.scene.players
    THEN createOtherPlayer(cs, data) ELSE cs

\* socket.on("playerLeft")
onPlayerLeft(cs, id) ==
    IF id \in DOMAIN cs.scene.players
    THEN Collect([ scene    |-> [cs.scene EXCEPT !.players = MapDel(@, id)],
                   entities |-> [cs.entities EXCEPT ![cs.scene.players[id]] = destroyPlayer(@)] ])
    ELSE cs

\* mutant: the step is the whole remaining distance and a tenth more
LinearOver(p0, p1) == p0 + (22 * (p1 - p0) + 10) \div 20

\* mutant: the step is a hundredth of the remaining distance
LinearSlow(p0, p1) == p0 + (2 * (p1 - p0) + 100) \div 200

\* Phaser.Math.Linear(p0, p1, 0.1) = (p1 - p0) * 0.1 + p0 on the fixed-point
\* coordinates, the product rounded to the nearest unit
Linear(p0, p1) == p0 + (2 * (p1 - p0) + 10) \div 20

\* mutant: the sprite is put on the target
interpolateEnemyJump(en) ==
    [en EXCEPT !.sprite = [x |-> en.targetPosition.x, y |-> en.targetPosition.y],
               !.healthBar.x = en.targetPosition.x,
               !.healthBar.y = en.targetPosition.y - Px(30)]

\* interpolateEnemyPositions, lines 304-313: one enemy
interpolateEnemy(en) ==
    LET x == Linear(en.sprite.x, en.targetPosition.x)
        y == Linear(en.sprite.y, en.targetPosition.y)
    IN  [en EXCEPT !.sprite = [x |-> x, y |-> y],
                   !.healthBar.x = x,
                   !.healthBar.y = y - Px(30)]

\* class Enemy (not used by MainScene): interpolate()
interpolate(en) ==
    LET x == Linear(en.sprite.x, en.targetPosition.x)
        y == Linear(en.sprite.y, en.targetPosition.y)
    IN  [en EXCEPT !.sprite = [x |-> x, y |-> y],
                   !.healthBar.x = x,
                   !.healthBar.y = y - Px(30)]

\* interpolateEnemyPositions()
interpolateEnemyPositions(cs) ==
    [cs EXCEPT !.scene.enemies = [k \in DOMAIN @ |-> interpolateEnemy(@[k])]]

\* update(): what it emits for the keys held, and the state it leaves
updateEmits(cs, l, r, u, d, attackKey) ==
    IF cs.scene.player = NoRef THEN << >>
    ELSE << ClientInput(l, r, u, d, attackKey,
                        cs.entities[cs.scene.player].currentDirection) >>

update(cs, l, r, u, d) ==
    interpolateEnemyPositions(
        IF cs.scene.player = NoRef THEN cs
        ELSE [cs EXCEPT !.scene.currentInputs =
                            [left |-> l, right |-> r, up |-> u, down |-> d]])

----------------------------------------------------------------------------
(* Operations *)

\* processInput() on player p in the program state st = [players, heap]
processInput(st, p) ==
    [ players |-> [st.players EXCEPT ![p] = processInputFields(@)],
      heap    |-> [st.heap EXCEPT ![st.players[p].position] =
                        processInputPosition(st.players[p], @)] ]

SetInput(p, input) ==
    /\ players' = [players EXCEPT ![p] = setInput(@, input)]
    /\ received' = [received EXCEPT ![p] =
                        [@ EXCEPT !.count = @ + 1,
                                  !.sawAttack = @ \/ (Has(input, "action") /\ input["action"] = "attack"),
                                  !.last = input]]
    /\ lastCall' = [op |-> "setInput", id |-> p, input |-> input]
    /\ UNCHANGED <<heap, client>>

ProcessInput(p) ==
    LET st == processInput([players |-> players, heap |-> heap], p)
    IN  /\ players' = st.players
        /\ heap' = st.heap
        /\ received' = [received EXCEPT ![p] =
                            [NothingReceived EXCEPT !.ticks = received[p].ticks + 1]]
        /\ lastCall' = [op |-> "processInput", id |-> p,
                        input |-> players[p].currentInput,
                        before |-> Snapshot(p),
                        since |-> received[p]]
        /\ UNCHANGED client

GainExp(p, amount) ==
    /\ players' = [players EXCEPT ![p] = gainExp(@, amount).player]
    /\ lastCall' = [op |-> "gainExp", id |-> p, amount |-> amount,
                    before |-> Snapshot(p),
                    ret |-> gainExp(players[p], amount).ret]
    /\ UNCHANGED <<heap, received, client>>

----------------------------------------------------------------------------
(* Spec: one player, every client input, the tick applied to it. *)

Init ==
    \E pos \in SpawnPositions :
        /\ players = [p \in {"p1"} |-> Player(PlayerData(p, 1))]
        /\ heap = [r \in {1} |-> pos]
        /\ received = [p \in {"p1"} |-> NothingReceived]
        /\ lastCall = [op |-> "init"]
        /\ NoClient

Next ==
    \E p \in DOMAIN players :
        \/ /\ received[p].count < MaxInputs
           /\ \E input \in Inputs : SetInput(p, input)
        \/ /\ received[p].ticks < MaxTicks
           /\ ProcessInput(p)

Spec == Init /\ [][Next]_vars

----------------------------------------------------------------------------
(* What a processInput call has just done to player p *)

Processed(p) == lastCall.op = "processInput" /\ lastCall.id = p

Step == speed \div TICK_RATE

Bit(b) == IF b THEN 1 ELSE 0

Clamp(v, lo, hi) == IF v < lo THEN lo ELSE IF v > hi THEN hi ELSE v

Abs(v) == IF v < 0 THEN -v ELSE v

SameKey(a, b, k) == (Has(a, k) <=> Has(b, k)) /\ (Has(a, k) => a[k] = b[k])

\* C1: once a setInput carrying action "attack" has arrived since the last
\* processInput, the pending record's action is "attack" whatever arrived
\* later (isAttacking() is true), and the processInput that consumes it sets
\* the player's action to "attack".
C1_AttackLatch ==
    \A p \in DOMAIN players :
        /\ received[p].sawAttack => isAttacking(players[p])
        /\ (Processed(p) /\ lastCall.since.sawAttack) => players[p].action = "attack"

\* an attack, then a record without "attack", then the tick: action is attack
C1_Witness ==
    \E p \in DOMAIN players :
        /\ Processed(p)
        /\ lastCall.since.sawAttack
        /\ lastCall.since.count >= 2
        /\ ~(Has(lastCall.since.last, "action") /\ lastCall.since.last["action"] = "attack")
        /\ players[p].action = "attack"

\* C2: after every processInput the position is inside the world rectangle:
\* 0 <= x <= 800 and 0 <= y <= 600.
C2_Clamped ==
    \A p \in DOMAIN players :
        Processed(p) =>
            /\ 0 <= Pos(p).x /\ Pos(p).x <= 800
            /\ 0 <= Pos(p).y /\ Pos(p).y <= 600

\* a move to the left from x = 3 that the clamp stopped at 0
C2_Witness ==
    \E p \in DOMAIN players :
        /\ Processed(p)
        /\ Flag(lastCall.input, "left") /\ ~Flag(lastCall.input, "right")
        /\ lastCall.before.position.x = 3
        /\ Pos(p).x = 0

\* C6: immediately after every processInput the pending record is empty, and
\* a processInput with no setInput since the previous one leaves position,
\* direction and action unchanged (a record moves the player in one tick only).
C6_ConsumptionResets ==
    \A p \in DOMAIN players :
        Processed(p) =>
            /\ players[p].currentInput = EmptyInput
            /\ DOMAIN players[p].currentInput = {}
            /\ lastCall.since.count = 0 =>
                    /\ Pos(p) = lastCall.before.position
                    /\ players[p].direction = lastCall.before.direction
                    /\ players[p].action = lastCall.before.action

\* a first tick moved the player, the second tick had nothing to consume
C6_Witness ==
    \E p \in DOMAIN players :
        /\ Processed(p)
        /\ lastCall.since.ticks = 1
        /\ lastCall.since.count = 0
        /\ Pos(p) \notin SpawnPositions
        /\ Pos(p) = lastCall.before.position

\* C7: when setInput calls arrived since the last processInput, the
\* processInput applies the movement flags and direction of the most recently
\* received record only, and moves the player by at most speed/TICK_RATE on
\* each axis.
C7_Coalescing ==
    \A p \in DOMAIN players :
        (Processed(p) /\ lastCall.since.count >= 1) =>
            LET last == lastCall.since.last
                from == lastCall.before.position
            IN  /\ \A k \in {"left", "right", "up", "down", "direction"} :
                        SameKey(lastCall.input, last, k)
                /\ Pos(p).x = Clamp(from.x + Step * Bit(Flag(last, "right"))
                                           - Step * Bit(Flag(last, "left")), 0, 800)
                /\ Pos(p).y = Clamp(from.y + Step * Bit(Flag(last, "down"))
                                           - Step * Bit(Flag(last, "up")), 0, 600)
                /\ players[p].direction =
                        IF Truthy(last, "direction") THEN last["direction"]
                        ELSE lastCall.before.direction
                /\ Abs(Pos(p).x - from.x) <= Step
                /\ Abs(Pos(p).y - from.y) <= Step

\* two records arrived, only the second one asked to go left: the player
\* went left by one step and not at all on the other axis
C7_Witness ==
    \E p \in DOMAIN players :
        /\ Processed(p)
        /\ lastCall.since.count >= 2
        /\ lastCall.since.last = [left |-> TRUE]
        /\ lastCall.before.position = [x |-> 797, y |-> 598]
        /\ Pos(p) = [x |-> 792, y |-> 598]

\* C8: with d = speed/TICK_RATE one processInput maps (x, y) to
\* (clamp(x + d*[right] - d*[left], 0, 800), clamp(y + d*[down] - d*[up], 0, 600)):
\* the flags act independently, a diagonal moves both axes by the full d, and
\* the clamp is applied once, after all displacements.
C8_IntegrateThenClamp ==
    \A p \in DOMAIN players :
        Processed(p) =>
            LET in == lastCall.input
                from == lastCall.before.position
            IN  /\ Pos(p).x = Clamp(from.x + Step * Bit(Flag(in, "right"))
                                           - Step * Bit(Flag(in, "left")), 0, 800)
                /\ Pos(p).y = Clamp(from.y + Step * Bit(Flag(in, "down"))
                                           - Step * Bit(Flag(in, "up")), 0, 600)

\* up+left away from the border moves both axes by the full step
C8_Witness ==
    \E p \in DOMAIN players :
        /\ Processed(p)
        /\ Flag(lastCall.input, "up") /\ Flag(lastCall.input, "left")
        /\ ~Flag(lastCall.input, "down") /\ ~Flag(lastCall.input, "right")
        /\ lastCall.before.position = [x |-> 797, y |-> 598]
        /\ Pos(p) = [x |-> 797 - Step, y |-> 598 - Step]

\* C9: processInput changes the direction only when the consumed record
\* carries a direction (to that direction) and the action only when it
\* carries an action (to that action); with neither, both keep their values;
\* level, exp, health and isAlive never change.
C9_ProcessInputFrame ==
    \A p \in DOMAIN players :
        Processed(p) =>
            LET in == lastCall.input
                was == lastCall.before
            IN  /\ players[p].direction # was.direction =>
                        Has(in, "direction") /\ players[p].direction = in["direction"]
                /\ players[p].action # was.action =>
                        Has(in, "action") /\ players[p].action = in["action"]
                /\ (~Has(in, "direction") /\ ~Has(in, "action")) =>
                        /\ players[p].direction = was.direction
                        /\ players[p].action = was.action
                /\ players[p].level = was.level
                /\ players[p].exp = was.exp
                /\ players[p].health = was.health
                /\ players[p].isAlive = was.isAlive

\* a record with flags only moved the player and kept the direction and
\* action that an earlier tick had set
C9_Witness ==
    \E p \in DOMAIN players :
        /\ Processed(p)
        /\ lastCall.input = [up |-> TRUE, left |-> TRUE]
        /\ Pos(p) # lastCall.before.position
        /\ players[p].direction = "right" /\ lastCall.before.direction = "right"
        /\ players[p].action = "walk" /\ lastCall.before.action = "walk"

\* C19: a latched attack is consumed by one processInput: right after any
\* processInput isAttacking() is false, and isAttacking() is true only if a
\* record with action "attack" arrived since the last processInput, so a
\* later record without "attack" leaves a pending record without "attack".
C19_LatchRelease ==
    \A p \in DOMAIN players :
        /\ Processed(p) => ~isAttacking(players[p])
        /\ isAttacking(players[p]) => received[p].sawAttack
        /\ (lastCall.op = "setInput" /\ lastCall.id = p /\ ~received[p].sawAttack) =>
                SameKey(players[p].currentInput, lastCall.input, "action")

\* the first tick consumed an attack; idle arrived; the second tick set idle
C19_Witness ==
    \E p \in DOMAIN players :
        /\ Processed(p)
        /\ lastCall.since.ticks = 1
        /\ lastCall.since.count >= 1
        /\ ~lastCall.since.sawAttack
        /\ lastCall.before.action = "attack"
        /\ Has(lastCall.input, "action") /\ lastCall.input["action"] = "idle"
        /\ players[p].action = "idle"

----------------------------------------------------------------------------
(* SpecExp: gainExp alone, on a player loaded with any level in 1..MaxLevel
   and any experience below that level's threshold. *)

Amounts == { k * AmountStep : k \in 0..MaxGain }

InitExp ==
    \E l \in 1..MaxLevel : \E e \in 0..(l * LevelExp - 1) :
        /\ players = [p \in {"p1"} |->
                        Player([PlayerData(p, 1) EXCEPT !.level = l, !.exp = e])]
        /\ heap = [r \in {1} |-> [x |-> 3, y |-> 2]]
        /\ received = [p \in {"p1"} |-> NothingReceived]
        /\ lastCall = [op |-> "init"]
        /\ NoClient

NextExp ==
    \E p \in DOMAIN players : \E amount \in Amounts :
        /\ players[p].level <= MaxLevel
        /\ GainExp(p, amount)

SpecExp == InitExp /\ [][NextExp]_vars

Gained(p) == lastCall.op = "gainExp" /\ lastCall.id = p

\* the reference computation: while exp >= level*100: exp -= level*100, level += 1
RECURSIVE LevelUp(_, _)
LevelUp(level, exp) ==
    IF exp >= level * 100
    THEN LevelUp(level + 1, exp - level * 100)
    ELSE [level |-> level, exp |-> exp]

\* C3: for level >= 1, exp in [0, level*100) and amount >= 0, gainExp leaves
\* (level, exp) equal to the result of the reference loop applied to
\* (level, exp + amount): a gain crossing several thresholds raises the level
\* several times.
C3_GainExpLoops ==
    \A p \in DOMAIN players :
        (Gained(p) /\ lastCall.before.exp < lastCall.before.level * 100) =>
            [level |-> players[p].level, exp |-> players[p].exp]
                = LevelUp(lastCall.before.level, lastCall.before.exp + lastCall.amount)

\* C4: between gainExp calls, 0 <= exp < level*100.
C4_ExpBelowThreshold ==
    \A p \in DOMAIN players :
        /\ 0 <= players[p].exp
        /\ players[p].exp < players[p].level * 100

\* C5: gainExp returns true exactly when it incremented the level and false
\* exactly when the level is unchanged, in which case exp grew by amount; a
\* gain that crosses exactly one threshold lowers exp by the old level*100
\* (net of the amount) and raises the level by exactly one.
C5_GainExpResult ==
    \A p \in DOMAIN players :
        Gained(p) =>
            LET was == lastCall.before
                sum == was.exp + lastCall.amount
            IN  /\ lastCall.ret = TRUE <=> players[p].level > was.level
                /\ lastCall.ret = FALSE <=> players[p].level = was.level
                /\ players[p].level = was.level => players[p].exp = sum
                /\ (sum >= was.level * 100 /\ sum - was.level * 100 < (was.level + 1) * 100) =>
                        /\ players[p].exp = sum - was.level * 100
                        /\ players[p].level = was.level + 1
                        /\ lastCall.ret = TRUE

\* level 1, exp 90, amount 30: exp 20, level 2, true
C5_Witness ==
    \E p \in DOMAIN players :
        /\ Gained(p)
        /\ lastCall.before.level = 1 /\ lastCall.before.exp = 90
        /\ lastCall.amount = 30
        /\ players[p].level = 2 /\ players[p].exp = 20
        /\ lastCall.ret = TRUE

----------------------------------------------------------------------------
(* SpecIso: two players, each constructed from its own join record (its own
   position object, holding the default spawn point), with setInput,
   processInput and gainExp called on either in any order. *)

PlayerIds == {"p1", "p2"}

\* the position reference of each player's join record
RefOf(p) == IF p = "p1" THEN 1 ELSE 2

IsoInputs ==
    { [left |-> TRUE],
      ClientInput(FALSE, TRUE, FALSE, TRUE, TRUE, "down") }

IsoAmounts == { MaxGain * AmountStep }

InitIso ==
    \E spawn \in SpawnPositions :
        /\ players = [p \in PlayerIds |-> Player(PlayerData(p, RefOf(p)))]
        /\ heap = [r \in {RefOf(p) : p \in PlayerIds} |-> spawn]
        /\ received = [p \in PlayerIds |-> NothingReceived]
        /\ lastCall = [op |-> "init"]
        /\ NoClient

NextIso ==
    \E p \in DOMAIN players :
        \/ /\ received[p].count < IsoMaxInputs
           /\ \E input \in IsoInputs : SetInput(p, input)
        \/ /\ received[p].ticks < IsoMaxTicks
           /\ ProcessInput(p)
        \/ /\ players[p].level <= IsoMaxLevel
           /\ \E amount \in IsoAmounts : GainExp(p, amount)

SpecIso == InitIso /\ [][NextIso]_vars

\* one tick: processInput on the players in the given order
RECURSIVE TickAll(_, _)
TickAll(st, order) ==
    IF order = << >> THEN st
    ELSE TickAll(processInput(st, Head(order)), Tail(order))

Program == [players |-> players, heap |-> heap]

\* C10: a setInput, processInput or gainExp call on one player leaves the
\* position, direction, action, level, exp and pending input of every other
\* player unchanged, and processing the players of a tick in either order
\* gives the same state.
C10_Isolation ==
    /\ [][\A p \in DOMAIN players : lastCall'.id # p => Snapshot(p)' = Snapshot(p)]_vars
    /\ [](TickAll(Program, <<"p1", "p2">>) = TickAll(Program, <<"p2", "p1">>))

\* p1 was moved by its tick while p2, with a record pending and a level
\* gained, stayed where it spawned
C10_Witness ==
    /\ DOMAIN players = PlayerIds
    /\ Processed("p1")
    /\ Pos("p1") # lastCall.before.position
    /\ players["p2"].currentInput = [left |-> TRUE]
    /\ players["p2"].level = 2
    /\ Pos("p2") \in SpawnPositions
    /\ received["p2"].ticks = 0

----------------------------------------------------------------------------
(* SpecAnim: one client Player entity and the calls MainScene makes on it
   for every snapshot (updateDirection, updateAction, playAnimation), with
   the sprite's animationcomplete event. *)

ServerActions == {"idle", "walk", "attack", "die"}

UpdateDirection(u, direction) ==
    /\ ~entities[u].destroyed
    /\ entities' = [entities EXCEPT ![u] = updateDirection(@, direction)]
    /\ lastCall' = [op |-> "updateDirection", uid |-> u, direction |-> direction,
                    before |-> entities[u]]
    /\ UNCHANGED <<server, scene, steps>>

UpdateAction(u, action) ==
    /\ ~entities[u].destroyed
    /\ entities' = [entities EXCEPT ![u] = updateAction(@, action)]
    /\ lastCall' = [op |-> "updateAction", uid |-> u, action |-> action,
                    before |-> entities[u]]
    /\ UNCHANGED <<server, scene, steps>>

\* playAnimation(action): the direction defaults to this.currentDirection
PlayAnimation(u, action) ==
    /\ ~entities[u].destroyed
    /\ entities' = [entities EXCEPT ![u] =
                        playAnimation(@, action, entities[u].currentDirection)]
    /\ lastCall' = [op |-> "playAnimation", uid |-> u, action |-> action,
                    before |-> entities[u]]
    /\ UNCHANGED <<server, scene, steps>>

\* a repeat: 0 animation of a live sprite reaches its last frame
AnimationComplete(u) ==
    /\ ~entities[u].destroyed
    /\ entities[u].sprite.playing
    /\ entities[u].sprite.anim \in OneShotKeys
    /\ entities' = [entities EXCEPT ![u] = animationComplete(@)]
    /\ lastCall' = [op |-> "animationcomplete", uid |-> u, before |-> entities[u]]
    /\ UNCHANGED <<server, scene, steps>>

JoinedData(id, pos) ==
    [ playerId |-> id, position |-> pos, level |-> 1, exp |-> 0,
      direction |-> "down", action |-> "idle" ]

NoServer ==
    /\ players = [p \in {} |-> NoRef]
    /\ heap = [r \in {} |-> NoRef]
    /\ received = [p \in {} |-> NoRef]

InitAnim ==
    /\ NoServer
    /\ scene = NewScene
    /\ entities = [u \in {1} |-> newPlayer(JoinedData("me", [x |-> Px(100), y |-> Px(100)]))]
    /\ steps = 0
    /\ lastCall = [op |-> "init"]

NextAnim ==
    \E u \in DOMAIN entities :
        \/ \E d \in Directions \cup {""} : UpdateDirection(u, d)
        \/ \E a \in ServerActions : UpdateAction(u, a)
        \/ \E a \in ServerActions : PlayAnimation(u, a)
        \/ AnimationComplete(u)

SpecAnim == InitAnim /\ [][NextAnim]_vars

\* the animationcomplete event of a playing attack animation is delivered
SpecAnimFair == SpecAnim /\ WF_vars(AnimationComplete(1))

Called(op, u) == lastCall.op = op /\ lastCall.uid = u

AttackKeys == { "attack_" \o d : d \in Directions }

\* C15: while an attack animation started by playAnimation("attack") has not
\* completed (isAttacking is true: the attack animation is playing and its
\* one completion listener is registered), a playAnimation call with any
\* action leaves the playing animation and isMoving unchanged and registers
\* no further listener.
C15_AttackLock ==
    \A u \in DOMAIN entities :
        /\ entities[u].isAttacking =>
                /\ entities[u].sprite.anim \in AttackKeys
                /\ entities[u].sprite.playing
                /\ entities[u].sprite.listeners = 1
        /\ (Called("playAnimation", u) /\ lastCall.before.isAttacking) =>
                /\ entities[u].sprite = lastCall.before.sprite
                /\ entities[u].isMoving = lastCall.before.isMoving
                /\ entities[u].isAttacking

\* "walk" arrived for an idle entity in the middle of its attack
C15_Witness ==
    \E u \in DOMAIN entities :
        /\ Called("playAnimation", u)
        /\ lastCall.before.isAttacking
        /\ lastCall.action = "walk"
        /\ ~entities[u].isMoving
        /\ entities[u].sprite.anim = "attack_left"

\* C16: an attack animation in progress is eventually released; the release
\* (its animationcomplete) sets isAttacking to false, removes the listener
\* and plays "walk" if isMoving and "idle" otherwise, in currentDirection;
\* there is never more than one listener, and once released playAnimation
\* takes effect again.
C16_AttackRelease ==
    /\ [](\A u \in DOMAIN entities :
            /\ entities[u].sprite.listeners <= 1
            /\ (Called("animationcomplete", u) /\ lastCall.before.isAttacking) =>
                    /\ ~entities[u].isAttacking
                    /\ entities[u].sprite.listeners = 0
                    /\ entities[u].sprite.playing
                    /\ entities[u].sprite.anim =
                            (IF lastCall.before.isMoving THEN "walk_" ELSE "idle_")
                                \o lastCall.before.currentDirection
            /\ (Called("playAnimation", u) /\ ~lastCall.before.isAttacking
                    /\ lastCall.action \in {"idle", "walk"}) =>
                    /\ entities[u].sprite.anim =
                            lastCall.action \o "_" \o lastCall.before.currentDirection
                    /\ entities[u].isMoving = (lastCall.action = "walk"))
    /\ (entities[1].isAttacking ~> ~entities[1].isAttacking)

\* a walking entity attacked and its release resumed the walk animation
C16_Witness ==
    \E u \in DOMAIN entities :
        /\ Called("animationcomplete", u)
        /\ lastCall.before.isAttacking
        /\ lastCall.before.isMoving
        /\ ~entities[u].isAttacking
        /\ entities[u].sprite.anim = "walk_up"

----------------------------------------------------------------------------
(* SpecScene: the client scene under the server's events (init, gameState,
   playerJoined, playerLeft), render frames and animation completions. *)

CS == [scene |-> scene, entities |-> entities]

Becomes(cs) == scene' = cs.scene /\ entities' = cs.entities

OnInit(state) ==
    /\ Becomes(updateGameState(CS, state))
    /\ steps' = steps + 1
    /\ lastCall' = [op |-> "onInit", state |-> state, before |-> CS]
    /\ UNCHANGED server

OnGameState(state) ==
    /\ Becomes(updateGameState(CS, state))
    /\ steps' = steps + 1
    /\ lastCall' = [op |-> "onGameState", state |-> state, before |-> CS]
    /\ UNCHANGED server

OnPlayerJoined(data) ==
    /\ Becomes(onPlayerJoined(CS, data))
    /\ steps' = steps + 1
    /\ lastCall' = [op |-> "onPlayerJoined", data |-> data, before |-> CS]
    /\ UNCHANGED server

OnPlayerLeft(id) ==
    /\ Becomes(onPlayerLeft(CS, id))
    /\ steps' = steps + 1
    /\ lastCall' = [op |-> "onPlayerLeft", id |-> id, before |-> CS]
    /\ UNCHANGED server

\* one render frame: MainScene.update with the keys held
Update(l, r, u, d, attackKey) ==
    /\ Becomes(update(CS, l, r, u, d))
    /\ steps' = steps + 1
    /\ lastCall' = [op |-> "update",
                    keys |-> [left |-> l, right |-> r, up |-> u, down |-> d,
                              attack |-> attackKey],
                    emitted |-> updateEmits(CS, l, r, u, d, attackKey),
                    before |-> CS]
    /\ UNCHANGED server

\* the snapshots the server sends: each player and enemy under its own id
PlayerSnap(id, v) ==
    IF v = 1
    THEN [ playerId |-> id, position |-> [x |-> Px(100), y |-> Px(100)],
           level |-> 1, exp |-> 10, direction |-> "left", action |-> "walk" ]
    ELSE [ playerId |-> id, position |-> [x |-> Px(105), y |-> Px(100)],
           level |-> 2, exp |-> 0, direction |-> "", action |-> "attack" ]

EnemySnap(v) ==
    IF v = 1
    THEN [ position |-> [x |-> Px(200), y |-> Px(200)], health |-> 100 ]
    ELSE [ position |-> [x |-> Px(300), y |-> Px(100)], health |-> 40 ]

NoEntries == [k \in {} |-> NoRef]

GameStates ==
    { [ players |-> NoEntries, enemies |-> NoEntries ],
      [ players |-> [me |-> PlayerSnap("me", 1)],
        enemies |-> [e1 |-> EnemySnap(1)] ],
      [ players |-> [me |-> PlayerSnap("me", 2), p2 |-> PlayerSnap("p2", 1)],
        enemies |-> [e1 |-> EnemySnap(2), e2 |-> EnemySnap(1)] ],
      [ players |-> [p2 |-> PlayerSnap("p2", 2)],
        enemies |-> [e2 |-> EnemySnap(2)] ] }

JoinedPlayers == { PlayerSnap("me", 1), PlayerSnap("p2", 1), PlayerSnap("p2", 2) }

\* the keys held in a frame: left, right, up, down, and the attack key check
SceneKeys == BOOLEAN \X BOOLEAN \X BOOLEAN \X BOOLEAN \X BOOLEAN

InitScene ==
    /\ NoServer
    /\ NoClient
    /\ lastCall = [op |-> "init"]

NextScene ==
    \/ /\ steps < MaxSteps
       /\ \/ \E state \in GameStates : OnInit(state)
          \/ \E state \in GameStates : OnGameState(state)
          \/ \E data \in JoinedPlayers : OnPlayerJoined(data)
          \/ \E id \in {"me", "p2"} : OnPlayerLeft(id)
          \/ \E k \in SceneKeys : Update(k[1], k[2], k[3], k[4], k[5])
    \/ \E u \in DOMAIN entities : AnimationComplete(u)

SpecScene == InitScene /\ [][NextScene]_vars

\* what the last handler was, for the claims about its effect
SnapshotApplied == lastCall.op \in {"onInit", "onGameState"}

\* the object a reference of the state cs names; a collected object is gone
Gone(cs, u) == u \notin DOMAIN cs.entities \/ cs.entities[u].destroyed

\* C11: immediately after every updateGameState(state), from a gameState or
\* an init event, the ids of the players map are the ids of state.players
\* and the ids of the enemies map are the ids of state.enemies; the ids
\* absent before are constructed as new live objects, and the entities of
\* the ids missing from the snapshot are destroyed and removed in that call.
C11_Reconciliation ==
    SnapshotApplied =>
        LET state == lastCall.state
            old == lastCall.before
        IN  /\ DOMAIN scene.players = DOMAIN state.players
            /\ DOMAIN scene.enemies = DOMAIN state.enemies
            /\ \A id \in DOMAIN state.players \ DOMAIN old.scene.players :
                    LET u == scene.players[id]
                    IN  /\ u \notin DOMAIN old.entities
                        /\ u \in DOMAIN entities
                        /\ ~entities[u].destroyed
                        /\ entities[u].playerId = id
                        /\ \A k \in DOMAIN scene.players : scene.players[k] = u => k = id
            /\ \A id \in DOMAIN old.scene.players \ DOMAIN state.players :
                    /\ ~old.entities[old.scene.players[id]].destroyed
                    /\ Gone(CS, old.scene.players[id])
            /\ \A id \in DOMAIN state.enemies \ DOMAIN old.scene.enemies :
                    /\ scene.enemies[id].sprite = state.enemies[id].position
                    /\ scene.enemies[id].maxHealth = state.enemies[id].health

\* a gameState that both constructs an absent player and an absent enemy
\* and removes a known player and a known enemy
C11_Witness ==
    /\ lastCall.op = "onGameState"
    /\ DOMAIN lastCall.before.scene.players = {"me"}
    /\ DOMAIN lastCall.before.scene.enemies = {"e1"}
    /\ DOMAIN lastCall.state.players = {"p2"}
    /\ DOMAIN lastCall.state.enemies = {"e2"}
    /\ DOMAIN scene.players = {"p2"}
    /\ DOMAIN scene.enemies = {"e2"}
    /\ entities[scene.player].destroyed

\* C12: after updateGameState(state) every player id known before the call
\* is still the same object, displayed at the snapshot position (its label
\* with it), with currentAction the snapshot action and, for a non-empty
\* snapshot direction, currentDirection the snapshot direction (an empty one
\* leaves it); for the client's own id exp and level are the snapshot's too.
C12_DirectAssignment ==
    SnapshotApplied =>
        LET state == lastCall.state
            old == lastCall.before
        IN  \A id \in DOMAIN state.players \cap DOMAIN old.scene.players :
                LET sp == state.players[id]
                    u == old.scene.players[id]
                    was == old.entities[u]
                    e == entities[u]
                IN  /\ scene.players[id] = u
                    /\ e.sprite.x = sp.position.x
                    /\ e.sprite.y = sp.position.y
                    /\ e.label.x = sp.position.x
                    /\ e.currentAction = sp.action
                    /\ e.currentDirection =
                           IF sp.direction # "" THEN sp.direction ELSE was.currentDirection
                    /\ id = scene.playerId => e.exp = sp.exp /\ e.level = sp.level
                    /\ id # scene.playerId => e.exp = was.exp /\ e.level = was.level

\* a gameState that moves the known local player 5 px, changes its action and
\* level, and leaves its direction (the snapshot's direction is empty)
C12_Witness ==
    /\ lastCall.op = "onGameState"
    /\ "me" \in DOMAIN lastCall.before.scene.players
    /\ "me" \in DOMAIN lastCall.state.players
    /\ lastCall.state.players["me"].direction = ""
    /\ LET u == lastCall.before.scene.players["me"]
       IN  /\ lastCall.before.entities[u].sprite.x = Px(100)
           /\ lastCall.before.entities[u].currentDirection = "left"
           /\ lastCall.before.entities[u].level = 1
           /\ entities[u].sprite.x = Px(105)
           /\ entities[u].currentDirection = "left"
           /\ entities[u].currentAction = "attack"
           /\ entities[u].level = 2

\* what a snapshot does to the enemies, and what a render frame does
EnemiesAfterSnapshot ==
    SnapshotApplied =>
        LET state == lastCall.state
            old == lastCall.before.scene.enemies
        IN  /\ \A id \in DOMAIN state.enemies \cap DOMAIN old :
                    LET en == scene.enemies[id]
                    IN  /\ en.sprite = old[id].sprite
                        /\ en.targetPosition = state.enemies[id].position
                        /\ en.healthBar.x = old[id].healthBar.x
                        /\ en.healthBar.y = old[id].healthBar.y
                        /\ en.maxHealth = old[id].maxHealth
                        /\ en.prevPosition = old[id].prevPosition
            /\ \A id \in DOMAIN state.enemies \ DOMAIN old :
                    /\ scene.enemies[id].sprite = state.enemies[id].position
                    /\ scene.enemies[id].targetPosition = state.enemies[id].position

EnemiesAfterFrame ==
    lastCall.op = "update" =>
        LET old == lastCall.before.scene.enemies
        IN  /\ DOMAIN scene.enemies = DOMAIN old
            /\ \A id \in DOMAIN old :
                    LET en == scene.enemies[id]
                    IN  /\ en.targetPosition = old[id].targetPosition
                        /\ 10 * (en.sprite.x - old[id].sprite.x)
                               = old[id].targetPosition.x - old[id].sprite.x
                        /\ 10 * (en.sprite.y - old[id].sprite.y)
                               = old[id].targetPosition.y - old[id].sprite.y

\* C13: a snapshot for a known enemy changes its stored target (and health
\* bar size and colour) and nothing else, never its displayed position; a
\* new enemy is displayed at its snapshot position with that position as
\* target; a render frame moves each coordinate of each enemy by exactly a
\* tenth of its remaining distance to the target; and no step other than a
\* render frame changes the displayed position of an enemy.
C13_EnemySmoothing ==
    /\ [](EnemiesAfterSnapshot /\ EnemiesAfterFrame)
    /\ [][ \A id \in DOMAIN scene.enemies \cap DOMAIN scene'.enemies :
              scene'.enemies[id].sprite # scene.enemies[id].sprite
                  => lastCall'.op = "update" ]_vars

\* a frame that moves a known enemy from (200, 200) a tenth of the way to
\* the target (300, 100) a snapshot stored without moving it
C13_Witness ==
    /\ lastCall.op = "update"
    /\ "e1" \in DOMAIN lastCall.before.scene.enemies
    /\ lastCall.before.scene.enemies["e1"].sprite = [x |-> Px(200), y |-> Px(200)]
    /\ lastCall.before.scene.enemies["e1"].targetPosition = [x |-> Px(300), y |-> Px(100)]
    /\ scene.enemies["e1"].sprite = [x |-> Px(210), y |-> Px(190)]
    /\ scene.enemies["e1"].healthBar.width = 16

----------------------------------------------------------------------------
(* SpecLerp: one enemy whose target no snapshot changes any more, and the
   render frames that follow. *)

\* the corners and the centre of the world
LerpPoints ==
    { [x |-> Px(0), y |-> Px(0)], [x |-> Px(WorldWidth), y |-> Px(WorldHeight)],
      [x |-> Px(WorldWidth), y |-> Px(0)], [x |-> Px(WorldWidth \div 2), y |-> Px(WorldHeight \div 2)] }

LerpSnapshot(pos) ==
    [ players |-> NoEntries, enemies |-> [e1 |-> [position |-> pos, health |-> 100]] ]

\* the enemy is first seen at one point, and a second snapshot stores another
\* point as its target
InitLerp ==
    /\ NoServer
    /\ entities = [u \in {} |-> NoRef]
    /\ steps = 0
    /\ lastCall = [op |-> "init"]
    /\ \E from \in LerpPoints, to \in LerpPoints :
           scene = updateGameState(
                       updateGameState([scene |-> NewScene, entities |-> entities],
                                       LerpSnapshot(from)),
                       LerpSnapshot(to)).scene

NextLerp ==
    /\ steps < MaxLerpFrames
    /\ Update(FALSE, FALSE, FALSE, FALSE, FALSE)

SpecLerp == InitLerp /\ [][NextLerp]_vars

\* one pixel
Epsilon == Scale

\* v lies between a and b
Between(v, a, b) == Min(a, b) <= v /\ v <= Max(a, b)

\* C14: with the target fixed, every render frame leaves each displayed
\* coordinate between its previous value and the target, so its distance to
\* the target never increases, and strictly decreases while it is a pixel
\* or more; after ConvergeFrames frames the displayed position is within
\* Epsilon of the target, from any starting point of the world.  The step is
\* the one of MainScene.interpolateEnemyPositions and of Enemy.interpolate.
C14_Convergence ==
    lastCall.op = "update" /\ "e1" \in DOMAIN scene.enemies =>
        LET old == lastCall.before.scene.enemies["e1"]
            en == scene.enemies["e1"]
            to == en.targetPosition
        IN  /\ to = old.targetPosition
            /\ en.sprite = interpolate(old).sprite
            /\ Between(en.sprite.x, old.sprite.x, to.x)
            /\ Between(en.sprite.y, old.sprite.y, to.y)
            /\ Abs(to.x - en.sprite.x) <= Abs(to.x - old.sprite.x)
            /\ Abs(to.y - en.sprite.y) <= Abs(to.y - old.sprite.y)
            /\ Abs(to.x - old.sprite.x) >= Epsilon
                   => Abs(to.x - en.sprite.x) < Abs(to.x - old.sprite.x)
            /\ Abs(to.y - old.sprite.y) >= Epsilon
                   => Abs(to.y - en.sprite.y) < Abs(to.y - old.sprite.y)
            /\ steps >= ConvergeFrames
                   => /\ Abs(to.x - en.sprite.x) <= Epsilon
                      /\ Abs(to.y - en.sprite.y) <= Epsilon

\* the enemy first seen at (0, 0) with target (800, 600), ConvergeFrames
\* frames later: within a pixel of the target, and more than a pixel away
\* the frame before
C14_Witness ==
    /\ lastCall.op = "update"
    /\ steps = ConvergeFrames
    /\ scene.enemies["e1"].prevPosition = [x |-> Px(0), y |-> Px(0)]
    /\ scene.enemies["e1"].targetPosition = [x |-> Px(WorldWidth), y |-> Px(WorldHeight)]
    /\ Abs(Px(WorldWidth) - scene.enemies["e1"].sprite.x) <= Epsilon
    /\ Abs(Px(WorldWidth) - lastCall.before.scene.enemies["e1"].sprite.x) > Epsilon

----------------------------------------------------------------------------
(* Claims on SpecScene: the membership deltas *)

\* every entry of the players map but id's, and every enemy, is as it was
OthersUntouched(old, id) ==
    /\ scene.enemies = old.scene.enemies
    /\ scene.player = old.scene.player
    /\ DOMAIN scene.players \ {id} = DOMAIN old.scene.players \ {id}
    /\ \A k \in DOMAIN old.scene.players \ {id} :
            /\ scene.players[k] = old.scene.players[k]
            /\ entities[scene.players[k]] = old.entities[old.scene.players[k]]

\* C17: playerJoined for an id of the players map changes nothing (no second
\* entity, the existing one as it was), and for an absent id adds exactly one
\* new live entity under that id; playerLeft for an id of the map destroys
\* its entity and removes the id, and for an absent id changes nothing;
\* neither changes another entry of the players map or the enemies map.
C17_MembershipDeltas ==
    /\ lastCall.op = "onPlayerJoined" =>
            LET old == lastCall.before
                id == lastCall.data.playerId
            IN  /\ OthersUntouched(old, id)
                /\ id \in DOMAIN old.scene.players => CS = old
                /\ id \notin DOMAIN old.scene.players =>
                       /\ id \in DOMAIN scene.players
                       /\ scene.players[id] \notin DOMAIN old.entities
                       /\ DOMAIN entities = DOMAIN old.entities \cup {scene.players[id]}
                       /\ entities[scene.players[id]].playerId = id
                       /\ ~entities[scene.players[id]].destroyed
                       /\ entities[scene.players[id]].sprite.x = lastCall.data.position.x
    /\ lastCall.op = "onPlayerLeft" =>
            LET old == lastCall.before
                id == lastCall.id
            IN  /\ OthersUntouched(old, id)
                /\ id \notin DOMAIN old.scene.players => CS = old
                /\ id \in DOMAIN old.scene.players =>
                       /\ id \notin DOMAIN scene.players
                       /\ ~old.entities[old.scene.players[id]].destroyed
                       /\ Gone(CS, old.scene.players[id])

\* a playerJoined for p2 while p2 is in the map with a state the payload
\* does not describe: nothing changes
C17_Witness ==
    /\ lastCall.op = "onPlayerJoined"
    /\ lastCall.data.playerId = "p2"
    /\ "p2" \in DOMAIN lastCall.before.scene.players
    /\ "me" \in DOMAIN scene.players
    /\ DOMAIN scene.enemies # {}
    /\ entities[scene.players["p2"]].currentAction = "walk"
    /\ entities[scene.players["p2"]].level # lastCall.data.level
    /\ Cardinality(DOMAIN entities) = 2

----------------------------------------------------------------------------
(* Claims on SpecScene: what a render frame emits *)

\* C18: a render frame with the local player reference set emits exactly
\* one playerInput: its four movement flags are the keys held; its action is
\* "attack" if the attack key check fires, else "walk" if a movement key is
\* held, else "idle"; its direction is, for "walk", the first held of up,
\* down, left, right, and for "attack" and "idle" the entity's current
\* direction; the frame leaves the entity as it was.  A frame of a scene
\* whose local player was never created emits nothing.
C18_InputEmission ==
    lastCall.op = "update" =>
        LET old == lastCall.before
            k == lastCall.keys
            out == lastCall.emitted
        IN  /\ old.scene.player = NoRef => out = << >>
            /\ old.scene.player # NoRef =>
                   LET was == old.entities[old.scene.player]
                       m == out[1]
                   IN  /\ Len(out) = 1
                       /\ DOMAIN m = {"left", "right", "up", "down", "direction", "action"}
                       /\ m.left = k.left /\ m.right = k.right
                       /\ m.up = k.up /\ m.down = k.down
                       /\ k.attack => m.action = "attack"
                       /\ ~k.attack /\ (k.left \/ k.right \/ k.up \/ k.down)
                              => m.action = "walk"
                       /\ ~k.attack /\ ~(k.left \/ k.right \/ k.up \/ k.down)
                              => m.action = "idle"
                       /\ m.action \in {"attack", "idle"}
                              => m.direction = was.currentDirection
                       /\ m.action = "walk" /\ k.up => m.direction = "up"
                       /\ m.action = "walk" /\ ~k.up /\ k.down => m.direction = "down"
                       /\ m.action = "walk" /\ ~k.up /\ ~k.down /\ k.left
                              => m.direction = "left"
                       /\ m.action = "walk" /\ ~k.up /\ ~k.down /\ ~k.left
                              => m.direction = "right"
                       /\ entities[scene.player] = was
                       /\ scene.currentInputs = [left |-> k.left, right |-> k.right,
                                                 up |-> k.up, down |-> k.down]

\* a frame with left and down held and no attack, for a live local player
\* facing left: one playerInput, walking down
C18_Witness ==
    /\ lastCall.op = "update"
    /\ lastCall.before.scene.player # NoRef
    /\ ~lastCall.before.entities[lastCall.before.scene.player].destroyed
    /\ lastCall.before.entities[lastCall.before.scene.player].currentDirection = "left"
    /\ lastCall.keys = [left |-> TRUE, right |-> FALSE, up |-> FALSE, down |-> TRUE,
                        attack |-> FALSE]
    /\ Len(lastCall.emitted) = 1
    /\ lastCall.emitted[1].action = "walk"
    /\ lastCall.emitted[1].direction = "down"

----------------------------------------------------------------------------
(* Claims on SpecScene: the local player reference *)

\* C20: in every reachable client state, whenever the scene's local player
\* reference is set it is the entity the players map holds under the
\* client's own playerId and that entity is not destroyed, and a render
\* frame emits a playerInput only for a live local entity.
C20_LocalReference ==
    /\ scene.player # NoRef =>
            /\ scene.playerId \in DOMAIN scene.players
            /\ scene.players[scene.playerId] = scene.player
            /\ ~entities[scene.player].destroyed
    /\ lastCall.op = "update" /\ lastCall.emitted # << >> =>
            ~lastCall.before.entities[lastCall.before.scene.player].destroyed

====
